---- MODULE Spec2Model ----
(***************************************************************************)
(* Ingestion and enrichment pipeline of spotify-db-GO: the client-side     *)
(* rate limiter and its retry loop (internal/utils/rate_limiter.go), the   *)
(* upstream client's error texts (internal/models/types.go), the           *)
(* collection cycles and the genre enrichment batch                        *)
(* (internal/handlers/tracks.go, cmd/recovery-safe/main.go) and the two    *)
(* tables they write (internal/repository/db.go).                          *)
(*                                                                         *)
(* Time is counted in ticks of 100 ms, the inter-request delay of Wait().  *)
(* Texts are tuples of one-character strings, so that substring tests and  *)
(* case folding are computed and not assumed.                              *)
(***************************************************************************)
EXTENDS Integers, Sequences, FiniteSets, Bags, TLC

\* ------------------------------------------------------------------------
\* Bounds of the model
\* ------------------------------------------------------------------------
MaxRetries == 2
MaxScript == 3
MaxSkew == 1
MaxIdles == 1
MaxCalls == 125

\* ------------------------------------------------------------------------
\* Units and program constants
\* ------------------------------------------------------------------------
SleepGap == 1
Second == 10
Minute == 600
maxRequestsPerMinute == 60
backoffMultiplier == 2
maxBackoffSeconds == 60

\* ------------------------------------------------------------------------
\* Texts
\* ------------------------------------------------------------------------
Needle429 ==
    <<"4","2","9">>
NeedleRateLimit ==
    <<"r","a","t","e"," ","l","i","m","i","t">>
NeedleTooManyRequests ==
    <<"t","o","o"," ","m","a","n","y"," ","r","e","q","u","e","s","t","s">>
MaxRetriesPrefix ==
    <<"m","a","x"," ","r","e","t","r","i","e","s"," ","e","x","c","e","e","d","e","d",":"," ">>
SpotifyPrefix ==
    <<"s","p","o","t","i","f","y",":"," ">>
ArtistErrPrefix ==
    <<"s","p","o","t","i","f","y"," ","f","a","i","l","e","d"," ","t","o"," ","g","e","t"," ","a","r","t","i","s","t"," ">>
ColonSpace ==
    <<":"," ">>
NoRetryAfterErr ==
    <<"s","p","o","t","i","f","y",":"," ","4","2","9"," ","T","o","o"," ","M","a","n","y"," ","R","e","q","u","e","s","t","s"," ","(","n","o"," ","R","e","t","r","y","-","A","f","t","e","r",")">>
SavedErrPrefix ==
    <<"s","p","o","t","i","f","y"," ","f","a","i","l","e","d"," ","t","o"," ","g","e","t"," ","s","a","v","e","d"," ","t","r","a","c","k","s"," ","a","t"," ","o","f","f","s","e","t"," ">>
Status429 ==
    <<"4","2","9"," ","T","o","o"," ","M","a","n","y"," ","R","e","q","u","e","s","t","s">>
Status404 ==
    <<"4","0","4"," ","N","o","t"," ","F","o","u","n","d">>
Status503 ==
    <<"5","0","3"," ","S","e","r","v","i","c","e"," ","U","n","a","v","a","i","l","a","b","l","e">>
NetErrArtistPrefix ==
    <<"G","e","t"," ","\"","h","t","t","p","s",":","/","/","a","p","i",".","s","p","o","t","i","f","y",".","c","o","m","/","v","1","/","a","r","t","i","s","t","s","/">>
NetErrSavedPrefix ==
    <<"G","e","t"," ","\"","h","t","t","p","s",":","/","/","a","p","i",".","s","p","o","t","i","f","y",".","c","o","m","/","v","1","/","m","e","/","t","r","a","c","k","s","?","o","f","f","s","e","t","=">>
NetErrSavedLimit ==
    <<"&","l","i","m","i","t","=">>
NetErrRecentUrl ==
    <<"G","e","t"," ","\"","h","t","t","p","s",":","/","/","a","p","i",".","s","p","o","t","i","f","y",".","c","o","m","/","v","1","/","m","e","/","p","l","a","y","e","r","/","r","e","c","e","n","t","l","y","-","p","l","a","y","e","d","?","l","i","m","i","t","=","5","0">>
NetErrSuffix ==
    <<"\"",":"," ","d","i","a","l"," ","t","c","p",":"," ","l","o","o","k","u","p"," ","a","p","i",".","s","p","o","t","i","f","y",".","c","o","m",":"," ","n","o"," ","s","u","c","h"," ","h","o","s","t">>
UpperChars ==
    <<"A","B","C","D","E","F","G","H","I","J","K","L","M",
      "N","O","P","Q","R","S","T","U","V","W","X","Y","Z">>
LowerChars ==
    <<"a","b","c","d","e","f","g","h","i","j","k","l","m",
      "n","o","p","q","r","s","t","u","v","w","x","y","z">>
DigitChars ==
    <<"0","1","2","3","4","5","6","7","8","9">>

UpperSet ==
    {UpperChars[i] : i \in 1..Len(UpperChars)}

\* strings.ToLower on one character
ToLowerChar(c) ==
    IF c \in UpperSet
    THEN LowerChars[CHOOSE i \in 1..Len(UpperChars) : UpperChars[i] = c]
    ELSE c

ToLower(s) ==
    [i \in 1..Len(s) |-> ToLowerChar(s[i])]

\* strings.Contains
Contains(s, sub) ==
    \E i \in 1..(Len(s) - Len(sub) + 1) :
        /\ s[i] = sub[1]
        /\ \A j \in 2..Len(sub) : s[i + j - 1] = sub[j]

\* strconv.Itoa and the %d verb, for the non-negative numbers the client prints
RECURSIVE Itoa(_)
Itoa(n) ==
    IF n < 10 THEN <<DigitChars[n + 1]>>
    ELSE Itoa(n \div 10) \o <<DigitChars[(n % 10) + 1]>>

IsDigit(c) ==
    \E i \in 1..Len(DigitChars) : DigitChars[i] = c

DigitValue(c) ==
    (CHOOSE i \in 1..Len(DigitChars) : DigitChars[i] = c) - 1

RECURSIVE AtoiValue(_)
AtoiValue(s) ==
    IF Len(s) = 0 THEN 0
    ELSE 10 * AtoiValue(SubSeq(s, 1, Len(s) - 1)) + DigitValue(s[Len(s)])

\* strconv.Atoi: ok is FALSE where Atoi returns an error
Atoi(s) ==
    IF Len(s) > 0 /\ \A i \in 1..Len(s) : IsDigit(s[i])
    THEN [ok |-> TRUE, value |-> AtoiValue(s)]
    ELSE [ok |-> FALSE, value |-> 0]

\* ------------------------------------------------------------------------
\* Errors: a Go error value is nil or carries a text
\* ------------------------------------------------------------------------
NilErr == [isNil |-> TRUE, text |-> <<>>]

ErrorOf(t) == [isNil |-> FALSE, text |-> t]

\* http.Response.Status for the status codes the upstream answers with
StatusText(code) ==
    CASE code = 429 -> Status429
      [] code = 404 -> Status404
      [] OTHER -> Status503

\* ------------------------------------------------------------------------
\* internal/utils/rate_limiter.go
\* ------------------------------------------------------------------------

\* IsRateLimitError: substring match on the lower-cased error text
IsRateLimitError(err) ==
    IF err.isNil THEN FALSE
    ELSE LET errStr == ToLower(err.text)
         IN \/ Contains(errStr, Needle429)
            \/ Contains(errStr, NeedleRateLimit)
            \/ Contains(errStr, NeedleTooManyRequests)

Min(a, b) == IF a < b THEN a ELSE b

RECURSIVE Pow(_, _)
Pow(b, e) == IF e = 0 THEN 1 ELSE b * Pow(b, e - 1)

\* HandleRateLimit: the wait in seconds for a Retry-After header and a
\* 0-based attempt number
HandleRateLimit(retryAfterHeader, attempt) ==
    LET parsed == Atoi(retryAfterHeader)
        fromHeader == IF retryAfterHeader # <<>> /\ parsed.ok THEN parsed.value ELSE 0
    IN IF fromHeader = 0
       THEN Min(Pow(backoffMultiplier, attempt), maxBackoffSeconds)
       ELSE fromHeader

\* Wait without the blocking branch: the counter is reset on a new minute but a
\* full window never makes the caller sleep
Wait_NoBlocking(st, skew) ==
    LET reset == st.now - st.windowStart >= Minute
    IN [requestCount |-> (IF reset THEN 0 ELSE st.requestCount) + 1,
        windowStart |-> IF reset THEN st.now ELSE st.windowStart,
        now |-> st.now + SleepGap]

\* Wait on the limiter state st = [requestCount, windowStart, now]; skew is
\* the time that passes between the clock read at entry and the clock read of
\* time.Until.  The result is the state when Wait returns.
Wait(st, skew) ==
    LET reset == st.now - st.windowStart >= Minute
        c1 == IF reset THEN 0 ELSE st.requestCount
        w1 == IF reset THEN st.now ELSE st.windowStart
        blocked == c1 >= maxRequestsPerMinute
        t2 == st.now + skew
        waitTime == (w1 + Minute) - t2
        slept == blocked /\ waitTime > 0
        t3 == IF slept THEN w1 + Minute ELSE IF blocked THEN t2 ELSE st.now
        c2 == IF slept THEN 0 ELSE c1
        w2 == IF slept THEN t3 ELSE w1
    IN [requestCount |-> c2 + 1, windowStart |-> w2, now |-> t3 + SleepGap]

GenreRateLimited ==
    <<"r","a","t","e","-","l","i","m","i","t","e","d">>
GenreUnknown ==
    <<"u","n","k","n","o","w","n">>
GenreNoGenre ==
    <<"n","o"," ","g","e","n","r","e">>
GenreSep ==
    <<","," ">>
Rock ==
    <<"r","o","c","k">>
Pop ==
    <<"p","o","p">>
NilText ==
    <<"<","n","i","l",">">>
ArtistPlain ==
    <<"4","Z","8","W">>
Artist429 ==
    <<"7","4","2","9","x">>

\* strings.Join
RECURSIVE Join(_, _)
Join(elems, sep) ==
    IF Len(elems) = 0 THEN <<>>
    ELSE IF Len(elems) = 1 THEN elems[1]
    ELSE elems[1] \o sep \o Join(Tail(elems), sep)

\* ------------------------------------------------------------------------
\* The upstream: a script of responses, the last of which is repeated for
\* every further request.  A response is [status, retryAfter, genres];
\* status 0 stands for a transport failure of http.DefaultClient.Do.
\* ------------------------------------------------------------------------
Response(status, retryAfter, genres) ==
    [status |-> status, retryAfter |-> retryAfter, genres |-> genres]

ResponseAt(script, idx) ==
    script[Min(idx, Len(script))]

\* ------------------------------------------------------------------------
\* internal/models/types.go: the upstream client.  Each operation returns
\* [err, hang, next, requests, slept, last]: the error value, whether the
\* call never returns, the index of the next unread response, the number of
\* requests sent, the seconds slept inside the call and the response that
\* decided the result.
\* ------------------------------------------------------------------------
OpResult(err, r, idx, requests, slept) ==
    [err |-> err, hang |-> FALSE, next |-> idx + 1, requests |-> requests,
     slept |-> slept, last |-> r]

GetRecentlyPlayed(script, idx) ==
    LET r == ResponseAt(script, idx)
    IN IF r.status = 0
       THEN OpResult(ErrorOf(NetErrRecentUrl \o NetErrSuffix), r, idx, 1, 0)
       ELSE IF r.status # 200
       THEN OpResult(ErrorOf(SpotifyPrefix \o StatusText(r.status)), r, idx, 1, 0)
       ELSE OpResult(NilErr, r, idx, 1, 0)

GetArtistById(artistID, script, idx) ==
    LET r == ResponseAt(script, idx)
    IN IF r.status = 0
       THEN OpResult(ErrorOf(NetErrArtistPrefix \o artistID \o NetErrSuffix), r, idx, 1, 0)
       ELSE IF r.status # 200
       THEN OpResult(ErrorOf(ArtistErrPrefix \o artistID \o ColonSpace \o StatusText(r.status)),
                     r, idx, 1, 0)
       ELSE OpResult(NilErr, r, idx, 1, 0)

RECURSIVE GetUserSavedTracksPageFrom(_, _, _, _, _, _)
GetUserSavedTracksPageFrom(offset, limit, script, idx, requests, slept) ==
    LET r == ResponseAt(script, idx)
        parsed == Atoi(r.retryAfter)
    IN IF r.status = 0
       THEN OpResult(ErrorOf(NetErrSavedPrefix \o Itoa(offset) \o NetErrSavedLimit
                             \o Itoa(limit) \o NetErrSuffix), r, idx, requests + 1, slept)
       ELSE IF r.status = 429
       THEN IF r.retryAfter # <<>> /\ parsed.ok
            THEN IF idx >= Len(script)
                 THEN [err |-> NilErr, hang |-> TRUE, next |-> idx + 1,
                       requests |-> requests + 1, slept |-> slept, last |-> r]
                 ELSE GetUserSavedTracksPageFrom(offset, limit, script, idx + 1,
                                                 requests + 1, slept + parsed.value + 1)
            ELSE OpResult(ErrorOf(NoRetryAfterErr), r, idx, requests + 1, slept)
       ELSE IF r.status # 200
       THEN OpResult(ErrorOf(SavedErrPrefix \o Itoa(offset)), r, idx, requests + 1, slept)
       ELSE OpResult(NilErr, r, idx, requests + 1, slept)

GetUserSavedTracksPage(offset, limit, script, idx) ==
    GetUserSavedTracksPageFrom(offset, limit, script, idx, 0, 0)

\* An operation handed to RetryWithBackoff: [kind, artistID, offset, limit]
ArtistOp(artistID) ==
    [kind |-> "artist", artistID |-> artistID, offset |-> 0, limit |-> 0]

SavedOp(offset, limit) ==
    [kind |-> "saved", artistID |-> <<>>, offset |-> offset, limit |-> limit]

RecentOp ==
    [kind |-> "recent", artistID |-> <<>>, offset |-> 0, limit |-> 50]

CallOp(op, script, idx) ==
    CASE op.kind = "artist" -> GetArtistById(op.artistID, script, idx)
      [] op.kind = "saved" -> GetUserSavedTracksPage(op.offset, op.limit, script, idx)
      [] OTHER -> GetRecentlyPlayed(script, idx)

\* ------------------------------------------------------------------------
\* RetryWithBackoff.  acc collects what the loop has done so far:
\*   calls    invocations of operation
\*   events   "wait", "op" and "sleep" in the order they happened
\*   sleeps   the backoff sleeps in seconds, one per retried attempt
\*   decided  the response that decided each invocation of operation
\*   errs     the error value each invocation returned
\*   requests upstream requests sent
\* The result adds err (the returned error), hang, st (the limiter state and
\* clock at return) and last (the response of the last invocation).
\* ------------------------------------------------------------------------
EmptyAcc ==
    [calls |-> 0, events |-> <<>>, sleeps |-> <<>>, decided |-> <<>>,
     errs |-> <<>>, requests |-> 0]

RetryReturn(err, hang, st, acc) ==
    [err |-> err, hang |-> hang, st |-> st, calls |-> acc.calls,
     events |-> acc.events, sleeps |-> acc.sleeps, decided |-> acc.decided,
     errs |-> acc.errs, requests |-> acc.requests]

RECURSIVE RetryLoop(_, _, _, _, _, _, _, _, _)
RetryLoop(attempt, st, idx, lastErr, acc, op, script, maxRetries, skew) ==
    IF attempt > maxRetries
    THEN RetryReturn(ErrorOf(MaxRetriesPrefix \o (IF lastErr.isNil THEN NilText ELSE lastErr.text)),
                     FALSE, st, acc)
    ELSE LET waited == Wait(st, skew)
             res == CallOp(op, script, idx)
             st1 == [waited EXCEPT !.now = @ + res.slept * Second]
             acc1 == [calls |-> acc.calls + 1,
                      events |-> acc.events \o <<"wait", "op">>,
                      sleeps |-> acc.sleeps,
                      decided |-> Append(acc.decided, res.last),
                      errs |-> Append(acc.errs, res.err),
                      requests |-> acc.requests + res.requests]
         IN IF res.hang THEN RetryReturn(NilErr, TRUE, st1, acc1)
            ELSE IF res.err.isNil THEN RetryReturn(NilErr, FALSE, st1, acc1)
            ELSE IF IsRateLimitError(res.err) /\ attempt < maxRetries
            THEN LET waitTime == HandleRateLimit(<<>>, attempt)
                 IN RetryLoop(attempt + 1,
                              [st1 EXCEPT !.now = @ + waitTime * Second],
                              res.next, res.err,
                              [acc1 EXCEPT !.events = Append(@, "sleep"),
                                           !.sleeps = Append(@, waitTime)],
                              op, script, maxRetries, skew)
            ELSE IF ~IsRateLimitError(res.err)
            THEN RetryReturn(res.err, FALSE, st1, acc1)
            ELSE RetryLoop(attempt + 1, st1, res.next, res.err, acc1,
                           op, script, maxRetries, skew)

\* the loop bound written attempt < maxRetries
RetryWithBackoff_OneAttemptShort(st, op, script, maxRetries, skew) ==
    RetryLoop(0, st, 1, NilErr, EmptyAcc, op, script, maxRetries - 1, skew)

RetryWithBackoff(st, op, script, maxRetries, skew) ==
    RetryLoop(0, st, 1, NilErr, EmptyAcc, op, script, maxRetries, skew)

\* ------------------------------------------------------------------------
\* State
\* ------------------------------------------------------------------------
VARIABLES
    requestCount,     \* RateLimiter.requestCount
    windowStart,      \* RateLimiter.windowStart
    now,              \* the wall clock
    waits,            \* Wait() calls that have returned
    firstCall,        \* clock at the first Wait() call, -1 before it
    idles,            \* idle periods of the caller so far
    probeStart,       \* start of the observed one-minute interval, -1 if none
    probeCount,       \* Wait() returns inside the observed interval
    retry,            \* the last RetryWithBackoff call: its arguments and outcome
    recently_played,  \* table recently_played: a bag of rows
    cycle,            \* what the last activity collection did
    recently_liked,   \* table recently_liked: a set of rows
    saved,            \* the items the last saved-tracks collection found stored already
    walk,             \* GetRecentlyPlayedSince: its arguments, loop variables and result
    pass,             \* the last saved-tracks collection as an observer sees it
    sched,            \* the scheduler goroutine of StartSpotifyCron and the local clock
    batch,            \* the last genre enrichment batch: the ids it selected and what
                      \* the upstream did to each lookup
    run,              \* the scheduler goroutine as the upstream sees it: the requests
                      \* of the operation it ran last and how that operation ended
    swalk,            \* a saved-items page walk: its upstream, loop variables and end
    cred              \* table refresh_tokens, the credentials the upstream has issued
                      \* and the operations that are between their read and their write

vars ==
    <<requestCount, windowStart, now, waits, firstCall, idles, probeStart,
      probeCount, retry, recently_played, cycle, recently_liked, saved, batch, walk, sched, pass,
      run, cred, swalk>>

faultVars ==
    <<run, cred, swalk>>

loopVars ==
    <<walk, sched, run, cred, swalk>>

likedVars ==
    <<recently_liked, saved, batch, pass>>

storeVars ==
    <<recently_played, cycle, recently_liked, saved, batch, pass>>

limiterVars ==
    <<requestCount, windowStart, now, waits, firstCall, idles, probeStart, probeCount>>

\* the limiter state and clock as the record Wait works on
LimiterState ==
    [requestCount |-> requestCount, windowStart |-> windowStart, now |-> now]

\* NewRateLimiter at clock 0
NewRateLimiter ==
    /\ requestCount = 0
    /\ windowStart = 0
    /\ now = 0

NoCycle ==
    [kind |-> "none", status |-> "none", latestTime |-> 0, items |-> <<>>,
     attempted |-> {}, skipped |-> {}, conflicts |-> {}, failed |-> {},
     lookupFailed |-> {}]

NoSaved ==
    [duplicates |-> {}]

\* the goroutine of StartSpotifyCron before it is started
NoRun ==
    [proc |-> "off", at |-> "sleep", traffic |-> <<>>, failure |-> FALSE,
     current |-> [called |-> FALSE, status |-> 0, result |-> "none", isNil |-> TRUE]]

NoSavedWalk ==
    [kind |-> "none", phase |-> "idle", total |-> 0, endless |-> FALSE, known |-> 0,
     failAt |-> 0, failures |-> 0, offset |-> 0, fetches |-> 0, consecutiveErrors |-> 0,
     inserted |-> 0, stop |-> "none"]

\* the scheduler loop and an HTTP handler that refreshes the token
Procs == {"cron", "http"}

\* no credential stored or issued (0), no operation under way
NoCred ==
    [stored |-> 0, issued |-> 0,
     ops |-> [p \in Procs |-> [pc |-> "idle", refreshTok |-> 0, latest |-> 0,
                                newRefresh |-> 0]]]

NoPass ==
    [status |-> "none", latestAddedAt |-> 0, library |-> <<>>, attempted |-> {},
     stopped |-> FALSE, fetches |-> 0,
     prior |-> [interrupted |-> FALSE, latestAddedAt |-> 0, library |-> <<>>]]

NoBatch ==
    [selected |-> {}, exhausted |-> {}, outcome |-> <<>>]

\* before go handlers.StartSpotifyCron()
NoSched ==
    [pc |-> [at |-> "off", inside |-> FALSE], clock |-> 0, hour |-> 0, interval |-> 0,
     active |-> {}, order |-> <<>>, iter |-> 0]

NoWalk ==
    [phase |-> "idle", since |-> 0, pages |-> <<>>, endless |-> FALSE, failAt |-> 0,
     pageCount |-> 0, cursor |-> 0, allItems |-> <<>>, err |-> NilErr, stop |-> "none"]

NoRetry ==
    [ran |-> FALSE, op |-> RecentOp, script |-> <<Response(200, <<>>, <<>>)>>,
     maxRetries |-> 0,
     out |-> RetryReturn(NilErr, FALSE,
                         [requestCount |-> 0, windowStart |-> 0, now |-> 0], EmptyAcc)]

Init ==
    /\ NewRateLimiter
    /\ waits = 0
    /\ firstCall = -1
    /\ idles = 0
    /\ probeStart = -1
    /\ probeCount = 0
    /\ retry = NoRetry
    /\ recently_played = EmptyBag
    /\ cycle = NoCycle
    /\ recently_liked = {}
    /\ saved = NoSaved
    /\ batch = NoBatch
    /\ walk = NoWalk
    /\ pass = NoPass
    /\ sched = NoSched
    /\ run = NoRun
    /\ cred = NoCred
    /\ swalk = NoSavedWalk

\* ------------------------------------------------------------------------
\* The rate limiter under a caller that calls Wait() and idles
\* ------------------------------------------------------------------------
IdleSteps ==
    {SleepGap, Minute - maxRequestsPerMinute * SleepGap - 1, Minute}

\* one call of Wait() from entry to return
WaitCall(skew) ==
    LET st == Wait(LimiterState, skew)
    IN /\ waits < MaxCalls
       /\ requestCount' = st.requestCount
       /\ windowStart' = st.windowStart
       /\ now' = st.now
       /\ waits' = waits + 1
       /\ firstCall' = IF firstCall = -1 THEN now ELSE firstCall
       /\ probeCount' = IF probeStart >= 0 /\ st.now < probeStart + Minute
                        THEN probeCount + 1 ELSE probeCount
       /\ UNCHANGED <<idles, probeStart, retry, storeVars, loopVars>>

\* the caller does something else for d ticks; the observed interval starts
\* when it comes back
Idle(d) ==
    /\ idles < MaxIdles
    /\ waits < MaxCalls
    /\ now' = now + d
    /\ idles' = idles + 1
    /\ probeStart' = now + d
    /\ probeCount' = 0
    /\ UNCHANGED <<requestCount, windowStart, waits, firstCall, retry, storeVars, loopVars>>

NextLimiter ==
    \/ \E skew \in 0..MaxSkew : WaitCall(skew)
    \/ \E d \in IdleSteps : Idle(d)

SpecLimiter == Init /\ [][NextLimiter]_vars

\* Back-to-back calls on the limiter just constructed: no idle period
BurstCalls == 3 * maxRequestsPerMinute

BurstWait(skew) ==
    LET st == Wait(LimiterState, skew)
    IN /\ waits < BurstCalls
       /\ requestCount' = st.requestCount
       /\ windowStart' = st.windowStart
       /\ now' = st.now
       /\ waits' = waits + 1
       /\ firstCall' = IF firstCall = -1 THEN now ELSE firstCall
       /\ UNCHANGED <<idles, probeStart, probeCount, retry, storeVars, loopVars>>

NextBurst ==
    \E skew \in 0..MaxSkew : BurstWait(skew)

SpecBurst == Init /\ [][NextBurst]_vars

\* ------------------------------------------------------------------------
\* One call of RetryWithBackoff against a scripted upstream
\* ------------------------------------------------------------------------
R200 == Response(200, <<>>, <<>>)
R429 == Response(429, <<>>, <<>>)
R429Hint == Response(429, <<"5">>, <<>>)
R429Date == Response(429, <<"W","e","d">>, <<>>)
R404 == Response(404, <<>>, <<>>)
RNet == Response(0, <<>>, <<>>)

Responses ==
    {R200, R429, R429Hint, R429Date, R404, RNet}

Scripts ==
    UNION {[1..n -> Responses] : n \in 1..MaxScript}

Ops ==
    {RecentOp, ArtistOp(ArtistPlain), ArtistOp(Artist429), SavedOp(0, 50), SavedOp(42900, 50)}

\* The limiter is far below its ceiling during one call, so the second clock
\* read of Wait is never made and the skew is taken as 0.
RunRetry(op, script, maxRetries) ==
    /\ retry' = [ran |-> TRUE, op |-> op, script |-> script,
                 maxRetries |-> maxRetries,
                 out |-> RetryWithBackoff(LimiterState, op, script, maxRetries, 0)]
    /\ requestCount' = retry'.out.st.requestCount
    /\ windowStart' = retry'.out.st.windowStart
    /\ now' = retry'.out.st.now
    /\ waits' = waits + retry'.out.calls
    /\ firstCall' = IF firstCall = -1 THEN now ELSE firstCall
    /\ UNCHANGED <<idles, probeStart, probeCount, storeVars, loopVars>>

NextRetry ==
    /\ ~retry.ran
    /\ \E op \in Ops, script \in Scripts, maxRetries \in 0..MaxRetries :
           RunRetry(op, script, maxRetries)

SpecRetry == Init /\ [][NextRetry]_vars

\* ------------------------------------------------------------------------
\* Observations on a finished RetryWithBackoff call
\* ------------------------------------------------------------------------
Returned == retry.ran /\ ~retry.out.hang

Throttled(r) == r.status = 429

Failed(r) == r.status # 200 /\ r.status # 429

\* the Retry-After seconds a response carries, 0 if it carries none
Hint(r) ==
    IF r.retryAfter # <<>> /\ Atoi(r.retryAfter).ok THEN Atoi(r.retryAfter).value ELSE 0

\* ------------------------------------------------------------------------
\* Claims about the rate limiter and the retry loop
\* ------------------------------------------------------------------------

\* C4: on one RateLimiter at most maxRequestsPerMinute calls of Wait() return
\* within any rolling one-minute interval, here the interval that starts when
\* the caller resumes after an idle period.
C4_RollingMinuteCeiling ==
    probeCount <= maxRequestsPerMinute

C6_NonThrottlingErrorNotRetried ==
    Returned =>
        \A i \in 1..retry.out.calls :
            Failed(retry.out.decided[i]) =>
                /\ i = retry.out.calls
                /\ retry.out.err = retry.out.errs[i]
                /\ retry.out.events[Len(retry.out.events)] = "op"

\* C7: when RetryWithBackoff returns a non-nil error, IsRateLimitError of it is
\* true exactly when the retries were exhausted on throttling responses and
\* false exactly when operation failed for a non-throttling reason.
C7_ClassificationMatchesCause ==
    (Returned /\ ~retry.out.err.isNil) =>
        LET lastResp == retry.out.decided[retry.out.calls]
            exhausted == /\ retry.out.calls = retry.maxRetries + 1
                         /\ Throttled(lastResp)
        IN /\ IsRateLimitError(retry.out.err) <=> exhausted
           /\ ~IsRateLimitError(retry.out.err) <=> Failed(lastResp)

\* operation reports throttling on response r
ThrottlesOp(op, r) ==
    Throttled(r) /\ (op.kind = "saved" => ~Atoi(r.retryAfter).ok)

\* C8: RetryWithBackoff(op, n) calls Wait() before every invocation of op,
\* invokes op at least once and at most n+1 times, returns success as soon as
\* one invocation succeeds, and succeeds when op is throttled n times and then
\* succeeds on invocation n+1.
C8_WaitBeforeEveryAttempt ==
    retry.ran =>
        LET out == retry.out
            n == retry.maxRetries
        IN /\ out.calls >= 1
           /\ out.calls <= n + 1
           /\ Cardinality({k \in 1..Len(out.events) : out.events[k] = "op"}) = out.calls
           /\ \A k \in 1..Len(out.events) :
                  out.events[k] = "op" => (k > 1 /\ out.events[k - 1] = "wait")
           /\ \A i \in 1..(out.calls - 1) : ~out.errs[i].isNil
           /\ ~out.hang => (out.err.isNil <=> out.errs[out.calls].isNil)
           /\ ( /\ \A i \in 1..n : ThrottlesOp(retry.op, ResponseAt(retry.script, i))
                /\ ResponseAt(retry.script, n + 1).status = 200 )
              => (out.err.isNil /\ ~out.hang /\ out.calls = n + 1)

C8_Witness ==
    /\ retry.ran
    /\ retry.maxRetries = 2
    /\ retry.out.calls = 3
    /\ Throttled(retry.out.decided[1])
    /\ Throttled(retry.out.decided[2])
    /\ retry.out.err.isNil

\* C9: the sleep after a throttled attempt equals the Retry-After seconds of
\* the throttling response if it carried them, and otherwise min(2^attempt, 60)
\* for the 0-based attempt number.
C9_SleepFollowsHintOrBackoff ==
    Returned =>
        \A i \in 1..Len(retry.out.sleeps) :
            Throttled(retry.out.decided[i]) =>
                retry.out.sleeps[i] =
                    IF Hint(retry.out.decided[i]) > 0
                    THEN Hint(retry.out.decided[i])
                    ELSE Min(Pow(2, i - 1), 60)

\* ------------------------------------------------------------------------
\* Activity collection: recently_played, CollectRecentTracks and
\* recoverRecentlyPlayedSafe
\* ------------------------------------------------------------------------
MaxItems == 2
FirstPlay == 100

\* COALESCE(MAX(played_at), '1970-01-01') of an empty table
Epoch == 0

\* time.Time{}, the value IsZero() recognises
ZeroTime == -1

\* The listening history the upstream can report: one play per instant, half
\* a second and one second after the first play
Plays ==
    {[id |-> "s1", played_at |-> FirstPlay],
     [id |-> "s2", played_at |-> FirstPlay + Second \div 2],
     [id |-> "s1", played_at |-> FirstPlay + Second]}

\* it.Track.Artists[0] of a played item
ArtistIdOf(id) == IF id = "s1" THEN ArtistPlain ELSE Artist429

ArtistNameOf(id) == IF id = "s1" THEN "Artist One" ELSE "Artist Two"

\* what the recently-played endpoint returns: most recent first
FetchedItems ==
    {items \in UNION {[1..n -> Plays] : n \in 0..MaxItems} :
        \A i \in 1..(Len(items) - 1) : items[i].played_at > items[i + 1].played_at}

RGenre == Response(200, <<>>, <<Rock, Pop>>)

FetchScripts == {<<R200>>, <<R429>>, <<R404>>}

LookupScripts == {<<RGenre>>, <<R429>>}

\* The limiter as the first Wait() of a scheduler iteration finds it: the loop
\* has slept five minutes or more, so the window has expired
ExpiredLimiter ==
    [requestCount |-> maxRequestsPerMinute, windowStart |-> 0, now |-> Minute]

\* The retries of a collection, computed once.  What a retry returns does not
\* depend on the limiter state, which only decides how long Wait() blocks, so
\* every retry of a collection is computed from the expired limiter.
ArtistLookupTable ==
    [a \in {ArtistPlain, Artist429}, sc \in LookupScripts, n \in {1, 3} |->
        RetryWithBackoff(ExpiredLimiter, ArtistOp(a), sc, n, 0)]

FetchTable ==
    [sc \in FetchScripts, n \in {2, 3} |->
        RetryWithBackoff(ExpiredLimiter, RecentOp, sc, n, 0)]

\* (spotify_song_id, played_at), the UNIQUE constraint of recently_played
PlayedKey(row) == <<row.spotify_song_id, row.played_at>>

\* the INSERT on a table without the UNIQUE constraint
InsertRecentlyPlayed_NoConstraint(table, row) ==
    table (+) SetToBag({row})

\* INSERT INTO recently_played ... ON CONFLICT DO NOTHING
InsertRecentlyPlayed(table, row) ==
    IF \E r \in BagToSet(table) : PlayedKey(r) = PlayedKey(row)
    THEN table
    ELSE table (+) SetToBag({row})

SetMax(S) == CHOOSE x \in S : \A y \in S : y <= x

\* GetLatestPlayedAt
GetLatestPlayedAt(table) ==
    IF BagToSet(table) = {} THEN Epoch
    ELSE SetMax({r.played_at : r \in BagToSet(table)})

\* the row a collection cycle builds from a played item and the artist lookup
PlayedRow(it, lookupOut) ==
    LET found == lookupOut.err.isNil /\ ~lookupOut.hang
        genres == lookupOut.decided[lookupOut.calls].genres
    IN [spotify_song_id |-> it.id,
        artist_name |-> IF found THEN ArtistNameOf(it.id) ELSE "",
        genre |-> IF found /\ Len(genres) > 0 THEN Join(genres, GenreSep) ELSE <<>>,
        played_at |-> it.played_at,
        source |-> "cron"]

\* the skip test of CollectRecentTracks
AlreadyHave(it, latestTime) ==
    latestTime # ZeroTime /\ it.played_at < latestTime + Second

\* the item loop leaving at the first INSERT that returns an error
RECURSIVE ItemLoop_StopAtError(_, _, _, _, _, _, _, _)
ItemLoop_StopAtError(i, items, useWatermark, latestTime, lookup, lookupRetries, dbFailAt, acc) ==
    IF i > Len(items) THEN acc
    ELSE LET it == items[i]
         IN IF useWatermark /\ AlreadyHave(it, latestTime)
            THEN ItemLoop_StopAtError(i + 1, items, useWatermark, latestTime, lookup,
                                      lookupRetries, dbFailAt,
                                      [acc EXCEPT !.skipped = @ \cup {it}])
            ELSE LET out == ArtistLookupTable[ArtistIdOf(it.id), lookup[i], lookupRetries]
                     row == PlayedRow(it, out)
                     conflict == \E r \in BagToSet(acc.table) : PlayedKey(r) = PlayedKey(row)
                     lookupFailed == IF out.err.isNil THEN acc.lookupFailed
                                     ELSE acc.lookupFailed \cup {it}
                 IN IF dbFailAt = i
                    THEN [acc EXCEPT !.attempted = @ \cup {it}, !.failed = @ \cup {it},
                                     !.lookupFailed = lookupFailed]
                    ELSE ItemLoop_StopAtError(i + 1, items, useWatermark, latestTime,
                             lookup, lookupRetries, dbFailAt,
                             [table |-> InsertRecentlyPlayed(acc.table, row),
                              attempted |-> acc.attempted \cup {it},
                              skipped |-> acc.skipped,
                              conflicts |-> IF conflict THEN acc.conflicts \cup {it}
                                            ELSE acc.conflicts,
                              failed |-> acc.failed,
                              lookupFailed |-> lookupFailed])

\* The item loop of a collection.  acc = [table, attempted, skipped,
\* conflicts, failed, lookupFailed]; useWatermark is FALSE for the recovery
\* run, which has no skip test.
RECURSIVE ItemLoop(_, _, _, _, _, _, _, _)
ItemLoop(i, items, useWatermark, latestTime, lookup, lookupRetries, dbFailAt, acc) ==
    IF i > Len(items) THEN acc
    ELSE LET it == items[i]
         IN IF useWatermark /\ AlreadyHave(it, latestTime)
            THEN ItemLoop(i + 1, items, useWatermark, latestTime, lookup, lookupRetries,
                          dbFailAt, [acc EXCEPT !.skipped = @ \cup {it}])
            ELSE LET out == ArtistLookupTable[ArtistIdOf(it.id), lookup[i], lookupRetries]
                     row == PlayedRow(it, out)
                     conflict == \E r \in BagToSet(acc.table) : PlayedKey(r) = PlayedKey(row)
                     dbFails == dbFailAt = i
                 IN ItemLoop(i + 1, items, useWatermark, latestTime, lookup, lookupRetries,
                             dbFailAt,
                             [table |-> IF dbFails THEN acc.table
                                        ELSE InsertRecentlyPlayed(acc.table, row),
                              attempted |-> acc.attempted \cup {it},
                              skipped |-> acc.skipped,
                              conflicts |-> IF conflict /\ ~dbFails
                                            THEN acc.conflicts \cup {it} ELSE acc.conflicts,
                              failed |-> IF dbFails THEN acc.failed \cup {it}
                                         ELSE acc.failed,
                              lookupFailed |-> IF out.err.isNil THEN acc.lookupFailed
                                               ELSE acc.lookupFailed \cup {it}])

StartAcc ==
    [table |-> recently_played, attempted |-> {}, skipped |-> {},
     conflicts |-> {}, failed |-> {}, lookupFailed |-> {}]

CycleLog(kind, status, latestTime, items, acc) ==
    [kind |-> kind, status |-> status, latestTime |-> latestTime, items |-> items,
     attempted |-> acc.attempted, skipped |-> acc.skipped,
     conflicts |-> acc.conflicts, failed |-> acc.failed,
     lookupFailed |-> acc.lookupFailed]

\* CollectRecentTracks ends before the fetch: no stored refresh token or the
\* token exchange fails
CollectRecentTracksNoToken ==
    /\ cycle' = CycleLog("cron", "no_token", ZeroTime, <<>>, StartAcc)
    /\ UNCHANGED <<recently_played, limiterVars, retry, likedVars, loopVars>>

\* CollectRecentTracks from the watermark query on.  wmErr: GetLatestPlayedAt
\* fails; fetchScript: the upstream's answers to the recently-played request;
\* lookup[i]: its answers to the artist lookup of item i; dbFailAt: the item
\* whose INSERT fails in the database, 0 for none.
CollectRecentTracks(wmErr, fetchScript, items, lookup, dbFailAt) ==
    LET latestTime == IF wmErr THEN ZeroTime ELSE GetLatestPlayedAt(recently_played)
        fetch == FetchTable[fetchScript, 2]
        acc == ItemLoop(1, items, TRUE, latestTime, lookup, 1, dbFailAt, StartAcc)
    IN /\ IF ~fetch.err.isNil
          THEN /\ cycle' = CycleLog("cron", "fetch_error", latestTime, <<>>,
                                    StartAcc)
               /\ UNCHANGED recently_played
          ELSE /\ recently_played' = acc.table
               /\ cycle' = CycleLog("cron", IF Len(items) = 0 THEN "empty" ELSE "done",
                                    latestTime, items, acc)
       /\ UNCHANGED <<limiterVars, retry, likedVars, loopVars>>

\* recoverRecentlyPlayedSafe of cmd/recovery-safe: its own limiter, three
\* retries, no skip test
RecoverRecentlyPlayedSafe(fetchScript, items, lookup, dbFailAt) ==
    LET fetch == FetchTable[fetchScript, 3]
        acc == ItemLoop(1, items, FALSE, ZeroTime, lookup, 3, dbFailAt, StartAcc)
    IN /\ IF ~fetch.err.isNil
          THEN /\ cycle' = CycleLog("recovery", "fetch_error", ZeroTime, <<>>,
                                    StartAcc)
               /\ UNCHANGED recently_played
          ELSE /\ recently_played' = acc.table
               /\ cycle' = CycleLog("recovery", IF Len(items) = 0 THEN "empty" ELSE "done",
                                    ZeroTime, items, acc)
       /\ UNCHANGED <<limiterVars, retry, likedVars, loopVars>>

NextCollect ==
    \/ CollectRecentTracksNoToken
    \/ \E wmErr \in BOOLEAN, fetchScript \in FetchScripts, items \in FetchedItems :
         \E lookup \in [1..Len(items) -> LookupScripts], dbFailAt \in 0..Len(items) :
            /\ (fetchScript # <<R200>>) => (items = <<>> /\ ~wmErr)
            /\ CollectRecentTracks(wmErr, fetchScript, items, lookup, dbFailAt)
    \/ \E fetchScript \in FetchScripts, items \in FetchedItems :
         \E lookup \in [1..Len(items) -> LookupScripts], dbFailAt \in 0..Len(items) :
            /\ (fetchScript # <<R200>>) => (items = <<>>)
            /\ RecoverRecentlyPlayedSafe(fetchScript, items, lookup, dbFailAt)

SpecCollect == Init /\ [][NextCollect]_vars

\* ------------------------------------------------------------------------
\* Claims about activity collection
\* ------------------------------------------------------------------------

\* C1: however often the same (item id, played-at) pair is persisted through
\* InsertRecentlyPlayed, by collection cycles and recovery runs in any mix,
\* recently_played holds exactly one row for the pair and the row stored first
\* is never changed.
C1_OneRowPerPlay ==
    /\ [](\A r \in BagToSet(recently_played) :
            /\ CopiesIn(r, recently_played) = 1
            /\ \A q \in BagToSet(recently_played) : PlayedKey(q) = PlayedKey(r) => q = r)
    /\ [][\A r \in BagToSet(recently_played) : BagIn(r, recently_played')]_vars

C1_Witness ==
    /\ cycle.conflicts # {}
    /\ \E r \in BagToSet(recently_played) : r.genre = <<>>
    /\ \E it \in cycle.conflicts : cycle.kind = "recovery"

\* C3: in a collection cycle that read the watermark T, every fetched item with
\* played-at <= T is skipped without an insert attempt, and every fetched item
\* with played-at > T is passed to the insert.
C3_WatermarkPartition ==
    (cycle.kind = "cron" /\ cycle.status = "done" /\ cycle.latestTime # ZeroTime) =>
        \A i \in 1..Len(cycle.items) :
            LET it == cycle.items[i]
            IN IF it.played_at <= cycle.latestTime
               THEN it \in cycle.skipped /\ it \notin cycle.attempted
                    /\ it \notin cycle.failed
               ELSE it \in cycle.attempted

\* ------------------------------------------------------------------------
\* Saved tracks and genre enrichment: recently_liked, InsertRecentlyLiked,
\* CollectSavedTracks and GetGenreOfRecentlyLiked
\* ------------------------------------------------------------------------
MaxLibrary == 3
MaxBatch == 2
FirstLike == 200

\* limit := 50 in CollectSavedTracks
savedLimit == 50

\* the retry budget of the genre lookup and of the saved-tracks page fetch
cronRetries == 2

\* The likes the upstream can report; l4 comes without artists or album
\* images.
Likes ==
    {[id |-> "l1", added_at |-> FirstLike, complete |-> TRUE],
     [id |-> "l2", added_at |-> FirstLike + Second, complete |-> TRUE],
     [id |-> "l3", added_at |-> FirstLike + 2 * Second, complete |-> TRUE],
     [id |-> "l4", added_at |-> FirstLike + 3 * Second, complete |-> FALSE]}

\* track.Artists[0].ID of a saved item
SavedArtistIdOf(id) == IF id = "l2" THEN Artist429 ELSE ArtistPlain

\* the user's library as the saved-tracks endpoint lists it: most recently
\* added first, each track once
Libraries ==
    {lib \in UNION {[1..n -> Likes] : n \in 0..MaxLibrary} :
        /\ \A i \in 1..(Len(lib) - 1) : lib[i].added_at > lib[i + 1].added_at
        /\ \A i, j \in 1..Len(lib) : lib[i].id = lib[j].id => i = j}

\* a library of more than one page, all items complete; the newest item
\* comes first
LongLibrary ==
    [i \in 1..(savedLimit + MaxLibrary) |->
        [id |-> ToString(i), added_at |-> FirstLike + (savedLimit + MaxLibrary - i),
         complete |-> TRUE]]

\* the long library as it grows: its newest items are the last to be added
LongLibraries ==
    {SubSeq(LongLibrary, k, Len(LongLibrary)) : k \in 1..MaxLibrary}

\* the items of the page at offset
UpstreamPage(library, offset) ==
    SubSeq(library, offset + 1, Min(offset + savedLimit, Len(library)))

\* the value of column genre: NULL or a text
NullGenre == [null |-> TRUE, text |-> <<>>]

TextGenre(t) == [null |-> FALSE, text |-> t]

\* id SERIAL: a new row gets an id above every id in the table
NextId(table) ==
    IF table = {} THEN 1 ELSE SetMax({r.id : r \in table}) + 1

\* the INSERT as an upsert that stores the item again
InsertRecentlyLiked_Upsert(table, item) ==
    [table |-> {r \in table : r.spotify_song_id # item.id} \cup
               {[id |-> NextId(table), spotify_song_id |-> item.id,
                 artist_id |-> SavedArtistIdOf(item.id), genre |-> NullGenre,
                 added_at |-> item.added_at]},
     duplicate |-> FALSE]

\* INSERT INTO recently_liked: spotify_song_id is UNIQUE, genre is not among
\* the columns and stays NULL
InsertRecentlyLiked(table, item) ==
    IF \E r \in table : r.spotify_song_id = item.id
    THEN [table |-> table, duplicate |-> TRUE]
    ELSE [table |-> table \cup
                    {[id |-> NextId(table), spotify_song_id |-> item.id,
                      artist_id |-> SavedArtistIdOf(item.id), genre |-> NullGenre,
                      added_at |-> item.added_at]},
          duplicate |-> FALSE]

\* GetLatestAddedAt
GetLatestAddedAt(table) ==
    IF table = {} THEN Epoch ELSE SetMax({r.added_at : r \in table})

SavedScripts == {<<R200>>, <<R429>>, <<R404>>}

SavedOffsets == {k * savedLimit : k \in 0..(MaxLibrary \div savedLimit + 2)}

\* the page fetches of CollectSavedTracks, computed once
SavedFetchTable ==
    [offset \in SavedOffsets, sc \in SavedScripts |->
        RetryWithBackoff(ExpiredLimiter, SavedOp(offset, savedLimit), sc, cronRetries, 0)]

\* the early exit testing Before instead of !After: an item added exactly at
\* the watermark is not recognised
SavedItemStep_ExitBefore(item, latestAddedAt, acc) ==
    IF latestAddedAt # ZeroTime /\ item.added_at < latestAddedAt
    THEN [acc EXCEPT !.done = TRUE]
    ELSE IF ~item.complete
    THEN acc
    ELSE LET ins == InsertRecentlyLiked(acc.table, item)
         IN [acc EXCEPT !.table = ins.table,
                        !.attempted = @ \cup {item},
                        !.inserted = IF ins.duplicate THEN @ ELSE @ \cup {item.id},
                        !.duplicates = IF ins.duplicate THEN @ \cup {item.id} ELSE @]

\* One turn of the item loop.  acc = [table, attempted, inserted,
\* duplicates, done, status, fetches]; done is the goto DONE of the early exit.
SavedItemStep(item, latestAddedAt, acc) ==
    IF latestAddedAt # ZeroTime /\ ~(item.added_at > latestAddedAt)
    THEN [acc EXCEPT !.done = TRUE]
    ELSE IF ~item.complete
    THEN acc
    ELSE LET ins == InsertRecentlyLiked(acc.table, item)
         IN [acc EXCEPT !.table = ins.table,
                        !.attempted = @ \cup {item},
                        !.inserted = IF ins.duplicate THEN @ ELSE @ \cup {item.id},
                        !.duplicates = IF ins.duplicate THEN @ \cup {item.id} ELSE @]

\* The item loop over the items lo..hi of one page, in their order: the
\* first half, then the second half with what the first half left; no turn
\* is taken after the early exit.
RECURSIVE SavedItemLoop(_, _, _, _, _)
SavedItemLoop(lo, hi, page, latestAddedAt, acc) ==
    IF lo > hi \/ acc.done THEN acc
    ELSE IF lo = hi THEN SavedItemStep(page[lo], latestAddedAt, acc)
    ELSE LET mid == (lo + hi) \div 2
             first == SavedItemLoop(lo, mid, page, latestAddedAt, acc)
         IN SavedItemLoop(mid + 1, hi, page, latestAddedAt, first)

\* The page loop.  The fetch of page number failAt is answered by failScript,
\* every other fetch succeeds.
RECURSIVE SavedPageLoop(_, _, _, _, _, _)
SavedPageLoop(offset, library, latestAddedAt, failAt, failScript, acc) ==
    LET script == IF offset \div savedLimit + 1 = failAt THEN failScript ELSE <<R200>>
        fetch == SavedFetchTable[offset, script]
        page == UpstreamPage(library, offset)
    IN IF ~fetch.err.isNil
       THEN [acc EXCEPT !.status = "fetch_error", !.fetches = @ + 1]
       ELSE IF Len(page) = 0
       THEN [acc EXCEPT !.fetches = @ + 1]
       ELSE LET after == SavedItemLoop(1, Len(page), page, latestAddedAt,
                                       [acc EXCEPT !.fetches = @ + 1])
            IN IF after.done THEN after
               ELSE SavedPageLoop(offset + savedLimit, library, latestAddedAt,
                                  failAt, failScript, after)

\* CollectSavedTracks ends before the watermark query: no stored refresh token
\* or the token exchange fails
CollectSavedTracksNoToken ==
    /\ saved' = [duplicates |-> {}]
    /\ UNCHANGED <<limiterVars, retry, recently_played, cycle, recently_liked, batch, pass,
                   loopVars>>

\* The body of CollectSavedTracks from the watermark query on, as a function
\* of the table.  wmErr: GetLatestAddedAt fails.
SavedPass(table, wmErr, library, failAt, failScript) ==
    LET latestAddedAt == IF wmErr THEN ZeroTime ELSE GetLatestAddedAt(table)
    IN [acc |-> SavedPageLoop(0, library, latestAddedAt, failAt, failScript,
                              [table |-> table, attempted |-> {}, inserted |-> {},
                               duplicates |-> {}, done |-> FALSE, status |-> "done",
                               fetches |-> 0]),
        latestAddedAt |-> latestAddedAt]

\* CollectSavedTracks from the watermark query on
CollectSavedTracks(wmErr, library, failAt, failScript) ==
    LET p == SavedPass(recently_liked, wmErr, library, failAt, failScript)
    IN /\ recently_liked' = p.acc.table
       /\ saved' = [duplicates |-> p.acc.duplicates]
       /\ UNCHANGED <<limiterVars, retry, recently_played, cycle, batch, pass, loopVars>>

\* CollectSavedTracks with an observer that notes the watermark it read, the
\* library the upstream held, the items it tried to insert, whether it left
\* through the early exit and how many pages it fetched; prior is the last
\* collection that stored items and then left at a failed page fetch
CollectSavedTracksWatched(wmErr, library, failAt, failScript) ==
    LET p == SavedPass(recently_liked, wmErr, library, failAt, failScript)
    IN /\ recently_liked' = p.acc.table
       /\ saved' = [duplicates |-> p.acc.duplicates]
       /\ pass' = [status |-> p.acc.status, latestAddedAt |-> p.latestAddedAt,
                   library |-> library, attempted |-> p.acc.attempted,
                   stopped |-> p.acc.done, fetches |-> p.acc.fetches,
                   prior |-> IF p.acc.status = "fetch_error" /\ p.acc.inserted # {}
                             THEN [interrupted |-> TRUE, latestAddedAt |-> p.latestAddedAt,
                                   library |-> library]
                             ELSE pass.prior]
       /\ UNCHANGED <<limiterVars, retry, recently_played, cycle, batch, loopVars>>

NextSaved ==
    \E wmErr \in BOOLEAN, library \in Libraries :
        \E failAt \in 0..Cardinality(SavedOffsets), failScript \in {<<R429>>, <<R404>>} :
            /\ (failAt = 0) => (failScript = <<R429>>)
            /\ wmErr => (failAt = 0)
            /\ CollectSavedTracksWatched(wmErr, library, failAt, failScript)

SpecSaved == Init /\ [][NextSaved]_vars

\* the collections of a library of more than one page
NextResume ==
    \E wmErr \in BOOLEAN, library \in LongLibraries :
        \E failAt \in 0..Cardinality(SavedOffsets), failScript \in {<<R429>>, <<R404>>} :
            /\ (failAt = 0) => (failScript = <<R429>>)
            /\ wmErr => (failAt = 0)
            /\ CollectSavedTracksWatched(wmErr, library, failAt, failScript)

SpecResume == Init /\ [][NextResume]_vars

\* what the upstream can answer to the artist lookup of an enrichment batch
RNoGenres == Response(200, <<>>, <<>>)

EnrichScripts == {<<RGenre>>, <<RNoGenres>>, <<R429>>, <<R404>>}

\* the artist lookups of GetGenreOfRecentlyLiked, computed once
GenreLookupTable ==
    [a \in {ArtistPlain, Artist429}, sc \in EnrichScripts |->
        RetryWithBackoff(ExpiredLimiter, ArtistOp(a), sc, cronRetries, 0)]

\* CASE WHEN genre = 'rate-limited' THEN 1 ELSE 0 END
RateLimitedLast(r) ==
    IF ~r.genre.null /\ r.genre.text = GenreRateLimited THEN 1 ELSE 0

\* ORDER BY CASE ..., id
BacklogBefore(q, r) ==
    \/ RateLimitedLast(q) < RateLimitedLast(r)
    \/ RateLimitedLast(q) = RateLimitedLast(r) /\ q.id < r.id

\* the batch query with 'unknown' added to its WHERE clause
GenreBacklog_WithUnknown(table, batchSize) ==
    LET eligible == {r \in table : \/ r.genre.null
                                   \/ r.genre.text = <<>>
                                   \/ r.genre.text = GenreRateLimited
                                   \/ r.genre.text = GenreUnknown}
    IN {r \in eligible : Cardinality({q \in eligible : BacklogBefore(q, r)}) < batchSize}

\* SELECT id, artist_id FROM recently_liked WHERE genre IS NULL OR genre = ''
\* OR genre = 'rate-limited' ORDER BY CASE ..., id LIMIT batchSize
GenreBacklog(table, batchSize) ==
    LET eligible == {r \in table : \/ r.genre.null
                                   \/ r.genre.text = <<>>
                                   \/ r.genre.text = GenreRateLimited}
    IN {r \in eligible : Cardinality({q \in eligible : BacklogBefore(q, r)}) < batchSize}

\* the genre GetGenreOfRecentlyLiked stores for the outcome of a lookup
StoredGenre(out) ==
    IF ~out.err.isNil
    THEN IF IsRateLimitError(out.err) THEN GenreRateLimited ELSE GenreUnknown
    ELSE LET genres == out.decided[out.calls].genres
         IN IF Len(genres) > 0 THEN Join(genres, GenreSep) ELSE GenreNoGenre

\* every attempt of the lookup was answered 429 and the budget is used up
ThrottledThroughout(out) ==
    /\ out.calls = cronRetries + 1
    /\ \A i \in 1..out.calls : Throttled(out.decided[i])

\* what the upstream did to a lookup: it answered with genres, with an empty
\* genre list, with 429 on the last attempt, or the lookup failed otherwise
LookupOutcome(out) ==
    LET last == out.decided[out.calls]
    IN IF last.status = 200
       THEN IF Len(last.genres) > 0 THEN "genres" ELSE "no_genres"
       ELSE IF Throttled(last) THEN "throttled" ELSE "failed"

\* GetGenreOfRecentlyLiked(batchSize) after the token exchange.  lookup[id]:
\* the upstream's answers to the artist lookup of the row id.
GetGenreOfRecentlyLiked(batchSize, lookup) ==
    LET rows == GenreBacklog(recently_liked, batchSize)
        outOf(r) == GenreLookupTable[r.artist_id, lookup[r.id]]
    IN /\ recently_liked' =
              {IF r \in rows THEN [r EXCEPT !.genre = TextGenre(StoredGenre(outOf(r)))]
               ELSE r : r \in recently_liked}
       /\ batch' = [selected |-> {r.id : r \in rows},
                    exhausted |-> {r.id : r \in {q \in rows : ThrottledThroughout(outOf(q))}},
                    outcome |-> [id \in {r.id : r \in rows} |->
                                    LookupOutcome(outOf(CHOOSE r \in rows : r.id = id))]]
       /\ UNCHANGED <<limiterVars, retry, recently_played, cycle, saved, pass, loopVars>>

NextEnrich ==
    \/ CollectSavedTracksNoToken
    \/ \E wmErr \in BOOLEAN, library \in Libraries :
         \E failAt \in 0..Cardinality(SavedOffsets), failScript \in {<<R429>>, <<R404>>} :
            /\ (failAt = 0) => (failScript = <<R429>>)
            /\ wmErr => (failAt = 0)
            /\ CollectSavedTracks(wmErr, library, failAt, failScript)
    \/ \E batchSize \in 1..MaxBatch :
         \E lookup \in [{r.id : r \in GenreBacklog(recently_liked, batchSize)} -> EnrichScripts] :
            GetGenreOfRecentlyLiked(batchSize, lookup)

SpecEnrich == Init /\ [][NextEnrich]_vars

\* ------------------------------------------------------------------------
\* Claims about genre enrichment
\* ------------------------------------------------------------------------

\* a genre the lookup resolved: the joined genre list of an artist
Resolved(g) ==
    ~g.null /\ g.text = Join(RGenre.genres, GenreSep)

\* the sentinels that close a row: 'no genre' and 'unknown'
ConfirmedNoGenre(g) ==
    ~g.null /\ g.text \in {GenreNoGenre, GenreUnknown}

\* C2: once the genre of a saved item holds a resolved value or the
\* confirmed-no-genre sentinel, no later step changes the row: an enrichment
\* batch does not select it and a new collection of the same item does not
\* reset it.
C2_SettledGenreKept ==
    /\ [](\A r \in recently_liked :
            (Resolved(r.genre) \/ ConfirmedNoGenre(r.genre)) =>
                \A batchSize \in 1..(MaxBatch + 1) :
                    r \notin GenreBacklog(recently_liked, batchSize))
    /\ [][\A r \in recently_liked :
             (Resolved(r.genre) \/ ConfirmedNoGenre(r.genre)) =>
                 /\ r \in recently_liked'
                 /\ (batch' # batch) => (r.id \notin batch'.selected)]_vars

C2_Witness ==
    \E r \in recently_liked :
        /\ Resolved(r.genre)
        /\ r.spotify_song_id \in saved.duplicates
        /\ batch.selected # {}
        /\ r.id \notin batch.selected

\* C10: a row whose artist lookup was throttled on every attempt of the retry
\* budget has genre 'rate-limited' afterwards, and the next enrichment batch
\* selects it, whatever other rows are in the backlog.
C10_ThrottledRowSelectedNext ==
    /\ [](\A id \in batch.exhausted :
            \E r \in recently_liked : r.id = id /\ r.genre = TextGenre(GenreRateLimited))
    /\ [][(batch' # batch) => (\A id \in batch.exhausted : id \in batch'.selected)]_vars

\* the genre of a row is unset: NULL or the empty text
UnsetGenre(g) == g.null \/ g.text = <<>>

\* the genre of a row is the throttled-retry sentinel
RateLimitedGenre(g) == ~g.null /\ g.text = GenreRateLimited

\* C11: an enrichment batch of size B selects throttled-retry rows before
\* unset rows: when a batch selects an unset row, fewer than B throttled-retry
\* rows exist, so every one of them is in the batch too.
C11_ThrottledRowsFirst ==
    [][(batch' # batch) =>
          ((\E r \in recently_liked : UnsetGenre(r.genre) /\ r.id \in batch'.selected) =>
               (\A q \in recently_liked :
                    RateLimitedGenre(q.genre) => q.id \in batch'.selected))]_vars

\* C12: for each row an enrichment batch processed the stored genre follows
\* the lookup outcome: the joined genre list after a success with genres, the
\* confirmed-no-genre sentinel after a success without genres or after a
\* failure that is not throttling; and in these three cases no later batch
\* selects the row.
C12_StoredGenreFollowsOutcome ==
    \A id \in DOMAIN batch.outcome :
        \A r \in {q \in recently_liked : q.id = id} :
            LET o == batch.outcome[id]
            IN /\ (o = "genres") => (r.genre = TextGenre(Join(RGenre.genres, GenreSep)))
               /\ (o = "no_genres") => (r.genre = TextGenre(GenreNoGenre))
               /\ (o = "failed") => ConfirmedNoGenre(r.genre)
               /\ (o \in {"genres", "no_genres", "failed"}) =>
                      \A batchSize \in 1..(MaxBatch + 1) :
                          r \notin GenreBacklog(recently_liked, batchSize)

\* ------------------------------------------------------------------------
\* spotify/client.go: GetRecentlyPlayedSince, the cursor walk over the
\* recently-played pages.  One step of the model is one iteration of its loop.
\* ------------------------------------------------------------------------
MaxTime == 3
MaxPageItems == 2
MaxWalkPages == 2

\* if pageCount > 1000
maxPages == 1000

WalkErrPrefix ==
    <<"e","r","r","o","r"," ","f","e","t","c","h","i","n","g"," ","p","a","g","e",":"," ">>

\* a page of played items, most recent first, given by their played_at
WalkPageSet ==
    {pg \in UNION {[1..n -> 1..MaxTime] : n \in 0..MaxPageItems} :
        \A i \in 1..(Len(pg) - 1) : pg[i] > pg[i + 1]}

\* the pages the upstream holds, each older than the one before
WalkPages ==
    {ps \in UNION {[1..n -> WalkPageSet] : n \in 1..MaxWalkPages} :
        \A i \in 1..(Len(ps) - 1) :
            \A a \in 1..Len(ps[i]), b \in 1..Len(ps[i + 1]) : ps[i][a] > ps[i + 1][b]}

\* GetRecentlyPlayedWithCursor: the answer to the request with the given
\* before cursor; cursor 0 is the empty cursor, cursor k follows page k.  An
\* endless upstream hands out a cursor with every page and repeats its last
\* page; otherwise the last page comes with a nil cursor.
GetRecentlyPlayedWithCursor(pages, endless, cursor) ==
    LET k == Min(cursor + 1, Len(pages))
    IN [items |-> pages[k],
        before |-> IF endless \/ cursor + 1 < Len(pages) THEN cursor + 1 ELSE 0]

\* the filter left out: every item of the page is kept
ItemsSince_KeepAll(items, since) ==
    items

\* the filter of the last page: the items played at or after since
RECURSIVE ItemsSince(_, _)
ItemsSince(items, since) ==
    IF Len(items) = 0 THEN <<>>
    ELSE IF Head(items) >= since
         THEN <<Head(items)>> \o ItemsSince(Tail(items), since)
         ELSE ItemsSince(Tail(items), since)

\* the walk returns: allItems and the error value
WalkReturn(w, pageCount, allItems, err, stop) ==
    [w EXCEPT !.phase = "done", !.pageCount = pageCount, !.allItems = allItems,
              !.err = err, !.stop = stop]

\* GetRecentlyPlayedSince up to its loop
StartWalk(since, pages, endless, failAt) ==
    /\ walk' = [phase |-> "loop", since |-> since, pages |-> pages, endless |-> endless,
                failAt |-> failAt, pageCount |-> 0, cursor |-> 0, allItems |-> <<>>,
                err |-> NilErr, stop |-> "none"]
    /\ UNCHANGED <<limiterVars, retry, storeVars, sched, faultVars>>

\* one iteration of the loop of GetRecentlyPlayedSince
WalkPage ==
    LET pageCount == walk.pageCount + 1
        response == GetRecentlyPlayedWithCursor(walk.pages, walk.endless, walk.cursor)
        items == response.items
    IN /\ walk' =
            IF walk.failAt = pageCount
            THEN WalkReturn(walk, pageCount, <<>>,
                            ErrorOf(WalkErrPrefix \o SpotifyPrefix \o StatusText(503)), "error")
            ELSE IF Len(items) = 0
            THEN WalkReturn(walk, pageCount, walk.allItems, NilErr, "empty")
            ELSE IF items[Len(items)] < walk.since
            THEN WalkReturn(walk, pageCount, walk.allItems \o ItemsSince(items, walk.since),
                            NilErr, "since")
            ELSE IF response.before = 0
            THEN WalkReturn(walk, pageCount, walk.allItems \o items, NilErr, "no_cursor")
            ELSE IF pageCount > maxPages
            THEN WalkReturn(walk, pageCount, walk.allItems \o items, NilErr, "ceiling")
            ELSE [walk EXCEPT !.pageCount = pageCount, !.cursor = response.before,
                              !.allItems = walk.allItems \o items]
       /\ UNCHANGED <<limiterVars, retry, storeVars, sched, faultVars>>

NextWalk ==
    \/ /\ walk.phase = "idle"
       /\ \E since \in 0..(MaxTime + 1), pages \in WalkPages, endless \in BOOLEAN,
             failAt \in 0..MaxWalkPages :
            /\ endless => (Len(pages) = 1 /\ failAt = 0)
            /\ StartWalk(since, pages, endless, failAt)
    \/ /\ walk.phase = "loop"
       /\ WalkPage

SpecWalk == Init /\ [][NextWalk]_vars

\* ------------------------------------------------------------------------
\* Claims about the cursor walk
\* ------------------------------------------------------------------------

\* the page the upstream serves to the k-th request of the walk
ServedPage(k) == walk.pages[Min(k, Len(walk.pages))]

\* the page has items and its oldest item was played before since
ReachesSince(pg) == Len(pg) > 0 /\ pg[Len(pg)] < walk.since

RECURSIVE ServedItems(_)
ServedItems(n) ==
    IF n = 0 THEN <<>> ELSE ServedItems(n - 1) \o ServedPage(n)

\* C13: when the oldest item of page N was played before since, the walk adds
\* from page N only the items played at or after since, fetches no page after
\* N and returns them together with all items of pages 1..N-1.
C13_WalkStopsAtSince ==
    /\ \A k \in 1..(walk.pageCount - 1) : ~ReachesSince(ServedPage(k))
    /\ (walk.phase = "loop" /\ walk.pageCount > 0) => ~ReachesSince(ServedPage(walk.pageCount))
    /\ (walk.phase = "done" /\ walk.err.isNil /\ ReachesSince(ServedPage(walk.pageCount))) =>
           walk.allItems = ServedItems(walk.pageCount - 1) \o
                           SelectSeq(ServedPage(walk.pageCount), LAMBDA t : t >= walk.since)

C13_Witness ==
    /\ walk.phase = "done"
    /\ walk.pageCount = 2
    /\ Len(ServedPage(1)) > 0
    /\ Len(ServedPage(2)) = 2
    /\ ServedPage(2)[1] >= walk.since
    /\ ServedPage(2)[2] < walk.since
    /\ Len(walk.allItems) = Len(ServedPage(1)) + 1

\* C14: when the upstream never signals the end of the pages and no page
\* reaches since, the walk fetches exactly maxPages pages and its result
\* carries the items collected so far and an indicator of the truncation.
C14_WalkStopsAtCeiling ==
    (walk.phase # "idle" /\ walk.endless /\ Len(ServedPage(1)) > 0
     /\ ~ReachesSince(ServedPage(1))) =>
        /\ walk.pageCount <= maxPages
        /\ (walk.phase = "done") =>
               /\ walk.pageCount = maxPages
               /\ Len(walk.allItems) = maxPages * Len(ServedPage(1))
               /\ ~walk.err.isNil

\* ------------------------------------------------------------------------
\* internal/handlers/tracks.go: StartSpotifyCron, the scheduler loop.  The
\* local clock counts the minutes of the day; an operation the loop calls
\* takes a whole number of minutes.
\* ------------------------------------------------------------------------
MaxOpMinutes == 1

DayMinutes == 1440

\* interval = 5 * time.Minute
activeInterval == 5

\* interval = 15 * time.Minute
sleepInterval == 15

\* GetGenreOfRecentlyLiked(50) is due when Minute()%30 == 0
genreModulus == 30

\* the operations of an iteration and the statement that follows each
SchedOps == {"recent", "saved", "current", "genre"}

After(op) ==
    CASE op = "recent" -> "saved"
      [] op = "saved" -> "current"
      [] op = "current" -> "check"
      [] OTHER -> "sleep"

At(stmt) == [at |-> stmt, inside |-> FALSE]

\* the operation started with a go statement: the loop does not wait for it
Invoke_Go(s, op) ==
    [s EXCEPT !.pc = At(After(op)),
              !.active = @ \cup {op},
              !.order = Append(@, op)]

\* a call of the loop: the goroutine is inside the operation until it returns
Invoke(s, op) ==
    [s EXCEPT !.pc = [at |-> op, inside |-> TRUE],
              !.active = @ \cup {op},
              !.order = Append(@, op)]

\* if hour >= 6 && hour <= 23
IntervalAt(hour) ==
    IF hour >= 6 /\ hour <= 23 THEN activeInterval ELSE sleepInterval

\* go handlers.StartSpotifyCron() at local time start
StartSpotifyCron(start) ==
    /\ sched.pc.at = "off"
    /\ sched' = [sched EXCEPT !.pc = At("sleep"), !.clock = start]
    /\ UNCHANGED <<limiterVars, retry, storeVars, walk, faultVars>>

\* the head of an iteration: read the hour, choose the interval, sleep
SchedSleep ==
    /\ sched.pc = At("sleep")
    /\ LET hour == sched.clock \div 60
       IN sched' = [sched EXCEPT !.pc = At("recent"),
                                 !.hour = hour,
                                 !.interval = IntervalAt(hour),
                                 !.clock = (@ + IntervalAt(hour)) % DayMinutes,
                                 !.order = <<>>,
                                 !.iter = (@ + 1) % 6]
    /\ UNCHANGED <<limiterVars, retry, storeVars, walk, faultVars>>

\* the loop reaches the call of an operation
SchedCall ==
    /\ sched.pc.at \in SchedOps
    /\ ~sched.pc.inside
    /\ sched' = Invoke(sched, sched.pc.at)
    /\ UNCHANGED <<limiterVars, retry, storeVars, walk, faultVars>>

\* an operation returns after d minutes
SchedReturn(op, d) ==
    /\ op \in sched.active
    /\ sched' = [sched EXCEPT !.active = @ \ {op},
                              !.clock = (@ + d) % DayMinutes,
                              !.pc = IF @ = [at |-> op, inside |-> TRUE]
                                     THEN At(After(op)) ELSE @]
    /\ UNCHANGED <<limiterVars, retry, storeVars, walk, faultVars>>

\* if time.Now().Minute()%30 == 0
SchedCheck ==
    /\ sched.pc = At("check")
    /\ sched' = [sched EXCEPT !.pc = IF (sched.clock % 60) % genreModulus = 0
                                     THEN At("genre") ELSE At("sleep")]
    /\ UNCHANGED <<limiterVars, retry, storeVars, walk, faultVars>>

NextSched ==
    \/ \E start \in 0..(DayMinutes - 1) : StartSpotifyCron(start)
    \/ SchedSleep
    \/ SchedCall
    \/ \E op \in SchedOps, d \in 0..MaxOpMinutes : SchedReturn(op, d)
    \/ SchedCheck

SpecSched == Init /\ [][NextSched]_vars

\* ------------------------------------------------------------------------
\* Claims about the scheduler loop
\* ------------------------------------------------------------------------

\* C15: before an iteration the loop sleeps the short interval when the local
\* hour is inside the active window 6 AM - 11 PM and the long interval when
\* it is inside the sleep window 11 PM - 6 AM.
C15_IntervalFollowsWindow ==
    (sched.pc.at \notin {"off", "sleep"} \/ sched.interval # 0) =>
        /\ (sched.hour >= 6 /\ sched.hour < 23) => (sched.interval = 5)
        /\ (sched.hour >= 23 \/ sched.hour < 6) => (sched.interval = 15)

\* C16: the operations of an iteration run one after another in the order
\* CollectRecentTracks, CollectSavedTracks, GetCurrentlyPLaying and, when
\* due, GetGenreOfRecentlyLiked; an iteration does not start before the
\* previous one has finished, so no two of them are ever running at once.
C16_OneOperationAtATime ==
    /\ Cardinality(sched.active) <= 1
    /\ \E n \in 0..4 : sched.order = SubSeq(<<"recent", "saved", "current", "genre">>, 1, n)
    /\ (sched.pc.at = "sleep") => (sched.active = {})
    /\ \A op \in sched.active : sched.pc = [at |-> op, inside |-> TRUE]

C16_Witness ==
    /\ sched.active = {"genre"}
    /\ sched.order = <<"recent", "saved", "current", "genre">>
    /\ sched.iter = 2

\* C17: GetGenreOfRecentlyLiked is triggered on every 6th iteration of the
\* loop and on no other, whatever the minute at which the loop started and
\* however long the operations of an iteration take.
C17_GenreEverySixthIteration ==
    /\ (sched.pc.at = "genre") => (sched.iter = 0)
    /\ (sched.pc = At("sleep") /\ Len(sched.order) = 3) => (sched.iter # 0)

\* ------------------------------------------------------------------------
\* Claims about the item loop of a collection cycle
\* ------------------------------------------------------------------------

\* C18: in a collection cycle every item that is not skipped gets its own
\* insert attempt, whatever happened to the inserts of the items before it,
\* and an insert that meets a stored row with the same key is not a failure.
C18_EveryNewItemAttempted ==
    (cycle.status = "done") =>
        /\ \A i \in 1..Len(cycle.items) :
               (cycle.items[i] \notin cycle.skipped) => (cycle.items[i] \in cycle.attempted)
        /\ cycle.conflicts \cap cycle.failed = {}
        /\ \A it \in cycle.attempted \ cycle.failed :
               \E r \in BagToSet(recently_played) : PlayedKey(r) = <<it.id, it.played_at>>

C18_Witness ==
    /\ cycle.status = "done"
    /\ Len(cycle.items) = 2
    /\ cycle.items[1] \in cycle.failed
    /\ cycle.items[2] \in cycle.attempted \ cycle.failed
    /\ cycle.conflicts = {}
    /\ \E r \in BagToSet(recently_played) :
           PlayedKey(r) = <<cycle.items[2].id, cycle.items[2].played_at>>

\* C19: an item whose artist lookup failed or used up its retries is still
\* stored in the same cycle, with a blank genre and with the item id, the
\* primary artist's name and the played-at of the fetched payload.
C19_FailedLookupKeepsPayload ==
    (cycle.status = "done") =>
        \A it \in cycle.lookupFailed \ (cycle.failed \cup cycle.conflicts) :
            \E r \in BagToSet(recently_played) :
                /\ PlayedKey(r) = <<it.id, it.played_at>>
                /\ r.genre = <<>>
                /\ r.artist_name = ArtistNameOf(it.id)

\* ------------------------------------------------------------------------
\* Claims about the saved-tracks collection
\* ------------------------------------------------------------------------

\* the position of the first item of the library added at or before w, 0 if
\* there is none
FirstNotAfter(library, w) ==
    IF \E i \in 1..Len(library) : library[i].added_at <= w
    THEN CHOOSE i \in 1..Len(library) :
             /\ library[i].added_at <= w
             /\ \A j \in 1..(i - 1) : library[j].added_at > w
    ELSE 0

TokenAnswers ==
    {[status |-> 200, refresh_token |-> 0], [status |-> 400, refresh_token |-> 0],
     [status |-> 0, refresh_token |-> 0]}

\* the answers of the currently-playing endpoint: playing, nothing playing,
\* unauthorized, throttled, no response
CurrentStatuses == {200, 204, 401, 429, 0}

\* services.RefreshAccessToken: [accessToken, newRefreshTok (0: nil), isNil]
RefreshAccessToken(answer) ==
    IF answer.status = 0 \/ answer.status # 200
    THEN [accessToken |-> "", newRefreshTok |-> 0, isNil |-> FALSE]
    ELSE [accessToken |-> "access", newRefreshTok |-> answer.refresh_token, isNil |-> TRUE]

\* services.GetCurrentlyListening: when Do returns an error res is nil and
\* defer res.Body.Close() dereferences it
GetCurrentlyListening(status) ==
    IF status = 0
    THEN [panics |-> TRUE, result |-> "none", isNil |-> FALSE]
    ELSE IF status # 200
    THEN [panics |-> FALSE, result |-> "nil", isNil |-> FALSE]
    ELSE [panics |-> FALSE, result |-> "playing", isNil |-> TRUE]

\* the events of a RetryWithBackoff trace that reach the limiter or the
\* upstream: "wait" and one request to endpoint for each call of operation
Traffic(events, endpoint) ==
    LET kept == SelectSeq(events, LAMBDA e : e # "sleep")
    IN [i \in 1..Len(kept) |-> IF kept[i] = "op" THEN endpoint ELSE kept[i]]

\* an operation has returned to the loop
Returns(op, traffic, failure) ==
    [run EXCEPT !.at = After(op), !.traffic = traffic, !.failure = failure]

\* go func() { for { ... } }()
IterStart ==
    /\ run.proc = "off"
    /\ run' = [run EXCEPT !.proc = "running"]
    /\ UNCHANGED <<limiterVars, retry, storeVars, walk, sched, cred, swalk>>

\* time.Sleep(interval)
IterSleep ==
    /\ run.proc = "running"
    /\ run.at = "sleep"
    /\ run' = [run EXCEPT !.at = "recent", !.traffic = <<>>, !.failure = FALSE]
    /\ UNCHANGED <<limiterVars, retry, storeVars, walk, sched, cred, swalk>>

\* CollectRecentTracks().  hasToken: a refresh token is stored; lookups: the
\* upstream's answers to the artist lookups of the new items
IterRecent(hasToken, answer, script, lookups) ==
    /\ run.proc = "running"
    /\ run.at = "recent"
    /\ LET tok == RefreshAccessToken(answer)
           fetch == FetchTable[script, cronRetries]
           artists == [i \in 1..Len(lookups) |->
                          Traffic(ArtistLookupTable[ArtistPlain, lookups[i], 1].events, "artist")]
       IN run' = IF ~hasToken THEN Returns("recent", <<>>, FALSE)
                 ELSE IF ~tok.isNil THEN Returns("recent", <<"token">>, TRUE)
                 ELSE IF ~fetch.err.isNil
                 THEN Returns("recent", <<"token">> \o Traffic(fetch.events, "recent"), TRUE)
                 ELSE Returns("recent",
                              <<"token">> \o Traffic(fetch.events, "recent")
                                  \o (IF Len(lookups) >= 1 THEN artists[1] ELSE <<>>)
                                  \o (IF Len(lookups) >= 2 THEN artists[2] ELSE <<>>),
                              \E i \in 1..Len(lookups) :
                                  ~ArtistLookupTable[ArtistPlain, lookups[i], 1].err.isNil)
    /\ UNCHANGED <<limiterVars, retry, storeVars, walk, sched, cred, swalk>>

\* CollectSavedTracks().  script: the upstream's answer to the first page
\* request; a page of items is followed by the request of the next page,
\* which is empty
IterSaved(hasToken, answer, script) ==
    /\ run.proc = "running"
    /\ run.at = "saved"
    /\ LET tok == RefreshAccessToken(answer)
           first == SavedFetchTable[0, script]
           second == SavedFetchTable[savedLimit, <<R200>>]
       IN run' = IF ~hasToken THEN Returns("saved", <<>>, FALSE)
                 ELSE IF ~tok.isNil THEN Returns("saved", <<"token">>, TRUE)
                 ELSE IF ~first.err.isNil
                 THEN Returns("saved", <<"token">> \o Traffic(first.events, "saved"), TRUE)
                 ELSE Returns("saved",
                              <<"token">> \o Traffic(first.events, "saved")
                                  \o Traffic(second.events, "saved"), FALSE)
    /\ UNCHANGED <<limiterVars, retry, storeVars, walk, sched, cred, swalk>>

\* GetCurrentlyPLaying(): the refresh error is dropped and the lookup is
\* sent with whatever access token came back
IterCurrent(answer, status) ==
    /\ run.proc = "running"
    /\ run.at = "current"
    /\ LET tok == RefreshAccessToken(answer)
           cur == GetCurrentlyListening(status)
           log == [called |-> TRUE, status |-> status, result |-> cur.result,
                   isNil |-> cur.isNil]
       IN run' = IF cur.panics
                 THEN [run EXCEPT !.proc = "panicked", !.traffic = <<"token", "current">>,
                                  !.failure = TRUE, !.current = log]
                 ELSE [Returns("current", <<"token", "current">>,
                               ~tok.isNil \/ status \notin {200, 204})
                          EXCEPT !.current = log]
    /\ UNCHANGED <<limiterVars, retry, storeVars, walk, sched, cred, swalk>>

\* if time.Now().Minute()%30 == 0
IterCheck(due) ==
    /\ run.proc = "running"
    /\ run.at = "check"
    /\ run' = [run EXCEPT !.at = IF due THEN "genre" ELSE "sleep"]
    /\ UNCHANGED <<limiterVars, retry, storeVars, walk, sched, cred, swalk>>

\* GetGenreOfRecentlyLiked(50) with a batch of one row or none
IterGenre(tokenErr, answer, lookups) ==
    /\ run.proc = "running"
    /\ run.at = "genre"
    /\ LET tok == RefreshAccessToken(answer)
           look == GenreLookupTable[ArtistPlain, lookups[1]]
       IN run' = IF tokenErr THEN Returns("genre", <<>>, FALSE)
                 ELSE IF ~tok.isNil THEN Returns("genre", <<"token">>, TRUE)
                 ELSE IF Len(lookups) = 0 THEN Returns("genre", <<"token">>, FALSE)
                 ELSE Returns("genre", <<"token">> \o Traffic(look.events, "artist"),
                              ~look.err.isNil)
    /\ UNCHANGED <<limiterVars, retry, storeVars, walk, sched, cred, swalk>>

NextIter ==
    \/ IterStart
    \/ IterSleep
    \/ \E hasToken \in BOOLEAN, answer \in TokenAnswers, script \in FetchScripts,
          lookups \in UNION {[1..n -> LookupScripts] : n \in 0..2} :
           IterRecent(hasToken, answer, script, lookups)
    \/ \E hasToken \in BOOLEAN, answer \in TokenAnswers, script \in SavedScripts :
           IterSaved(hasToken, answer, script)
    \/ \E answer \in TokenAnswers, status \in CurrentStatuses :
           /\ (answer.status # 200) => (status \in {401, 0})
           /\ IterCurrent(answer, status)
    \/ \E due \in BOOLEAN : IterCheck(due)
    \/ \E tokenErr \in BOOLEAN, answer \in TokenAnswers,
          lookups \in {<<>>} \cup {<<sc>> : sc \in EnrichScripts} :
           IterGenre(tokenErr, answer, lookups)

SpecIter == Init /\ [][NextIter]_vars

\* C21: no failure of the upstream during an operation of the scheduler loop
\* terminates the process or stops the loop.
C21_UpstreamFailureNotFatal ==
    run.failure => run.proc = "running"

\* C22: when the upstream answers the currently-playing request with a
\* success status without content, GetCurrentlyListening returns an empty
\* result and no error.
C22_NothingPlayingIsNoError ==
    (run.current.called /\ run.current.status = 204) =>
        (run.current.isNil /\ run.current.result = "empty")

\* a position of the traffic that is a request to the upstream
IsRequest(traffic, i) == traffic[i] # "wait"

\* C23: every request the scheduler loop sends to the upstream follows a
\* Wait() on the cron limiter made after the previous request.
C23_EveryRequestBehindLimiter ==
    \A i \in 1..Len(run.traffic) :
        IsRequest(run.traffic, i) => (i > 1 /\ run.traffic[i - 1] = "wait")


\* ------------------------------------------------------------------------
\* The saved-items page walks, one loop iteration per step: the scheduled
\* CollectSavedTracks (limit 50, 2 retries, leaves at a fetch error and at
\* the first known item) and the one-shot recoverRecentlyLikedSafe (limit
\* 20, 3 retries, leaves at the fifth consecutive fetch error).  The items
\* of the upstream are complete and unknown to the table, so a page of n
\* items inserts n rows; an endless upstream answers every offset with a
\* full page.
\* ------------------------------------------------------------------------
MaxSavedFetches == 1003

recoveryLimit == 20

maxConsecutiveErrors == 5

\* limit := 50 / limit := 20
LimitOf(kind) == IF kind = "cron" THEN savedLimit ELSE recoveryLimit

\* len(page.Items) for the request at offset
PageLen(w) ==
    IF w.endless THEN LimitOf(w.kind)
    ELSE Min(LimitOf(w.kind), IF w.total > w.offset THEN w.total - w.offset ELSE 0)

\* the items of the page that are inserted in CollectSavedTracks before the
\* first known item (known: its position in the library, 0 if none)
NewOnPage(w) ==
    IF w.kind = "cron" /\ w.known > w.offset /\ w.known <= w.offset + PageLen(w)
    THEN w.known - w.offset - 1
    ELSE PageLen(w)

\* the walk is started.  total: items the upstream holds; failAt: page whose
\* fetch fails after its retries, failures times in a row (0: none)
StartSavedWalk(kind, total, endless, known, failAt, failures) ==
    /\ swalk.phase = "idle"
    /\ swalk' = [NoSavedWalk EXCEPT !.kind = kind, !.phase = "running", !.total = total,
                                    !.endless = endless, !.known = known,
                                    !.failAt = failAt, !.failures = failures]
    /\ UNCHANGED <<limiterVars, retry, storeVars, walk, sched, run, cred>>

\* one iteration of the for loop
SavedWalkPage ==
    /\ swalk.phase = "running"
    /\ swalk.fetches < MaxSavedFetches
    /\ LET w == [swalk EXCEPT !.fetches = @ + 1]
           fails == w.failures > 0 /\ w.offset \div LimitOf(w.kind) + 1 = w.failAt
           stopsAtKnown == NewOnPage(w) < PageLen(w)
       IN swalk' =
              IF fails
              THEN IF w.kind = "cron"
                   THEN [w EXCEPT !.phase = "done", !.stop = "fetch_error"]
                   ELSE IF w.consecutiveErrors + 1 >= maxConsecutiveErrors
                   THEN [w EXCEPT !.phase = "done", !.stop = "too_many_errors",
                                  !.consecutiveErrors = @ + 1, !.failures = @ - 1]
                   ELSE [w EXCEPT !.consecutiveErrors = @ + 1, !.failures = @ - 1]
              ELSE IF PageLen(w) = 0
              THEN [w EXCEPT !.phase = "done", !.stop = "empty_page",
                             !.consecutiveErrors = 0]
              ELSE IF stopsAtKnown
              THEN [w EXCEPT !.phase = "done", !.stop = "known_item",
                             !.inserted = @ + NewOnPage(w)]
              ELSE [w EXCEPT !.inserted = @ + PageLen(w),
                             !.offset = @ + LimitOf(w.kind),
                             !.consecutiveErrors = 0]
    /\ UNCHANGED <<limiterVars, retry, storeVars, walk, sched, run, cred>>

NextSavedWalk ==
    \/ \E kind \in {"cron", "recovery"}, total \in {0, 30, 120}, endless \in BOOLEAN,
          known \in {0, 1, 25, 60}, failAt \in 0..2, failures \in {0, 1, 5} :
           /\ endless => (total = 0 /\ known = 0 /\ failAt = 0)
           /\ known <= total
           /\ (kind = "recovery") => (known = 0)
           /\ (failAt = 0) <=> (failures = 0)
           /\ StartSavedWalk(kind, total, endless, known, failAt, failures)
    \/ SavedWalkPage

SpecSavedWalk == Init /\ [][NextSavedWalk]_vars

\* C24: every saved-items page walk stops after a bounded number of page
\* fetches, also when the upstream never returns an empty page and every
\* item is newer than the watermark: it has stopped once it has fetched
\* more pages than the page ceiling of the recent-activity walk allows.
C24_SavedWalkStopsAtCeiling ==
    (swalk.endless /\ swalk.fetches > maxPages + 1) => swalk.phase = "done"


\* C25: one call of GetUserSavedTracksPage sends exactly one upstream request
\* and returns, so a page fetch under RetryWithBackoff(op, 2) sends at most
\* 3 requests and always returns, also when every answer is a throttling
\* status with a retry hint.
C25_SavedFetchOneRequestPerCall ==
    (retry.ran /\ retry.op.kind = "saved") =>
        /\ ~retry.out.hang
        /\ retry.out.requests = retry.out.calls
        /\ (retry.maxRetries = cronRetries) => (retry.out.requests <= cronRetries + 1)


\* C26: when the fetch of page N fails in GetRecentlyPlayedSince, the items
\* collected from pages 1..N-1 are still part of what the walk returns.
C26_FailedPageKeepsEarlierItems ==
    (walk.phase = "done" /\ ~walk.err.isNil) =>
        walk.allItems = ServedItems(walk.pageCount - 1)


\* C27: after every return of Wait() the counter of the current window is
\* between 1 and maxRequestsPerMinute, also when the window boundary falls
\* between the two clock reads of Wait().
C27_CounterWithinCeiling ==
    (waits > 0) => (1 <= requestCount /\ requestCount <= maxRequestsPerMinute)


\* C28: no saved item is missed for good because a collection was
\* interrupted: when a collection has stored items and then left at a failed
\* page fetch, a later collection without a fetch failure over the same
\* library leaves every complete item added after the watermark of the
\* interrupted collection in the table.
C28_InterruptedPassCaughtUp ==
    (pass.status = "done" /\ pass.prior.interrupted /\ pass.library = pass.prior.library) =>
        \A i \in 1..Len(pass.library) :
            (pass.library[i].complete /\ pass.library[i].added_at > pass.prior.latestAddedAt) =>
                \E r \in recently_liked : r.spotify_song_id = pass.library[i].id


\* C29: an item whose insert failed with a persistence error that is no key
\* conflict is not lost: the next cycle that fetches it again and meets no
\* persistence error leaves it in recently_played, also when newer items of
\* the failing cycle were stored.
C29_FailedInsertRetriedLater ==
    [][(cycle.status = "done" /\ cycle'.status = "done" /\ cycle'.failed = {}) =>
           \A it \in cycle.failed :
               (\E i \in 1..Len(cycle'.items) : cycle'.items[i] = it) =>
                   \E r \in BagToSet(recently_played') :
                       PlayedKey(r) = <<it.id, it.played_at>>]_vars


\* ------------------------------------------------------------------------
\* The stored credential.  Credentials are numbered in the order in which
\* the upstream issues them or /save-refresh supplies them; 0 is the empty
\* string.  An operation reads the stored credential, exchanges it and
\* writes the rotated one back in three separate steps.
\* ------------------------------------------------------------------------
MaxIssued == 3

\* repository.GetRefreshToken: the refresh_token of the one row of
\* spotify_auth, "" when there is none
GetRefreshToken(c) == c.stored

\* repository.SaveOrUpdateRefreshToken: the row holds value afterwards; a
\* database error leaves it as it was
SaveOrUpdateRefreshToken(c, value, ok) ==
    IF ok THEN [c EXCEPT !.stored = value] ELSE c

\* what the token endpoint answers to the exchange of refreshTok: a rotated
\* credential, the same credential again (no refresh_token in the body) or a
\* refusal
ExchangeAnswers(c, refreshTok) ==
    IF refreshTok = 0 THEN {[status |-> 400, refresh_token |-> 0]}
    ELSE {[status |-> 200, refresh_token |-> 0], [status |-> 400, refresh_token |-> 0]}
         \cup (IF c.issued < MaxIssued
               THEN {[status |-> 200, refresh_token |-> c.issued + 1]} ELSE {})

\* SaveRefresh: POST /save-refresh with a new credential; on a database
\* error the handler answers 500 and the credential counts as not supplied
SaveRefresh(ok) ==
    /\ cred.issued < MaxIssued
    /\ cred' = IF ok
               THEN [SaveOrUpdateRefreshToken(cred, cred.issued + 1, TRUE)
                        EXCEPT !.issued = cred.issued + 1]
               ELSE cred
    /\ UNCHANGED <<limiterVars, retry, storeVars, walk, sched, run, swalk>>

\* refreshTok, err := repository.GetRefreshToken(): the operation starts.
\* The scheduler's operations return when nothing is stored
OpRead(p) ==
    /\ cred.ops[p].pc = "idle"
    /\ LET refreshTok == GetRefreshToken(cred)
       IN cred' = IF p = "cron" /\ refreshTok = 0
                  THEN [cred EXCEPT !.ops[p] = [pc |-> "idle", refreshTok |-> 0,
                                                latest |-> cred.issued, newRefresh |-> 0]]
                  ELSE [cred EXCEPT !.ops[p] = [pc |-> "read", refreshTok |-> refreshTok,
                                                latest |-> cred.issued, newRefresh |-> 0]]
    /\ UNCHANGED <<limiterVars, retry, storeVars, walk, sched, run, swalk>>

\* accessTok, newRefresh, err := services.RefreshAccessToken(refreshTok)
OpRefresh(p, answer) ==
    /\ cred.ops[p].pc = "read"
    /\ LET tok == RefreshAccessToken(answer)
       IN cred' = [cred EXCEPT !.issued = IF answer.refresh_token > @
                                          THEN answer.refresh_token ELSE @,
                               !.ops[p].pc = "refreshed",
                               !.ops[p].newRefresh = tok.newRefreshTok]
    /\ UNCHANGED <<limiterVars, retry, storeVars, walk, sched, run, swalk>>

\* the write without its condition: whatever the exchange gave is stored
OpWrite_AlwaysWrites(p, ok) ==
    /\ cred.ops[p].pc = "refreshed"
    /\ cred' = [SaveOrUpdateRefreshToken(cred, cred.ops[p].newRefresh, ok)
                   EXCEPT !.ops[p].pc = "idle"]
    /\ UNCHANGED <<limiterVars, retry, storeVars, walk, sched, run, swalk>>

\* if newRefresh != nil && *newRefresh != refreshTok
\*     { _ = repository.SaveOrUpdateRefreshToken(*newRefresh) }
OpWrite(p, ok) ==
    /\ cred.ops[p].pc = "refreshed"
    /\ LET op == cred.ops[p]
           written == IF op.newRefresh # 0 /\ op.newRefresh # op.refreshTok
                      THEN SaveOrUpdateRefreshToken(cred, op.newRefresh, ok)
                      ELSE cred
       IN cred' = [written EXCEPT !.ops[p].pc = "idle"]
    /\ UNCHANGED <<limiterVars, retry, storeVars, walk, sched, run, swalk>>

NextCred ==
    \/ \E ok \in BOOLEAN : SaveRefresh(ok)
    \/ \E p \in Procs : OpRead(p)
    \/ \E p \in Procs :
         \E answer \in ExchangeAnswers(cred, cred.ops[p].refreshTok) : OpRefresh(p, answer)
    \/ \E p \in Procs, ok \in BOOLEAN : OpWrite(p, ok)

SpecCred == Init /\ [][NextCred]_vars

\* C30 as stated: under every interleaving of the scheduler loop and the
\* handlers, and whether or not the write of a rotated credential succeeds,
\* the credential an operation reads when it starts is the latest one issued
\* or supplied, a stored credential is never replaced by an older one and the
\* stored credential is never empty once set.
C30_StoredCredentialIsLatest ==
    /\ [](\A p \in Procs :
            (cred.ops[p].pc = "read") => (cred.ops[p].refreshTok = cred.ops[p].latest))
    /\ [][cred'.stored >= cred.stored]_vars
    /\ [][(cred.stored # 0) => (cred'.stored # 0)]_vars

\* C30 amended: under every interleaving, and whether or not a write
\* succeeds, the stored credential is one that the upstream issued or that
\* /save-refresh supplied, it is never empty once set, and an operation
\* changes it only to the credential its own exchange returned, which
\* differs from the one it read.  It need not be the latest one issued.
C30_StoredCredentialIssuedNeverEmptied ==
    /\ [](cred.stored \in 0..cred.issued)
    /\ [][(cred.stored # 0) => (cred'.stored # 0)]_vars
    /\ [][\A p \in Procs :
            (cred.ops[p].pc = "refreshed" /\ cred'.ops[p].pc = "idle"
                /\ cred'.stored # cred.stored)
            => (cred'.stored = cred.ops[p].newRefresh
                /\ cred'.stored # cred.ops[p].refreshTok)]_vars

\* both operations have finished and the stored credential is an earlier
\* one than the latest issued
C30_Witness ==
    /\ cred.issued >= 2
    /\ cred.stored \in 1..(cred.issued - 1)
    /\ \A p \in Procs : cred.ops[p].pc = "idle" /\ cred.ops[p].refreshTok # 0

====
